---- MODULE Spec2Model ----
(***************************************************************************)
(* Model of the voice-chat client in src/App.tsx: the session orchestrator *)
(* (startSession / stopSession and the callbacks handed to the live        *)
(* service), the playback scheduler (handleMessage's audio branch and      *)
(* stopAllAudio), the transcript log (addMessage) and the capture pipeline *)
(* (onaudioprocess).                                                       *)
(*                                                                         *)
(* A start attempt is identified by a number 1..MaxAttempts; the           *)
(* microphone stream, the pair of audio contexts and the service session   *)
(* created by attempt a all carry the identity a.  References held by the  *)
(* component (streamRef, audioContextsRef, sessionRef) hold an attempt     *)
(* number, or NULL.                                                        *)
(***************************************************************************)
EXTENDS Integers, Sequences, FiniteSets, TLC

----------------------------------------------------------------------------
(* Bounds of the model *)
MaxAttempts == 2      \* start attempts that get past their first await
AudioAttempts == 1    \* the same, in behaviours with microphone traffic
MaxTime     == 2      \* cap of the output clock and of the playback cursor
MaxPending  == 1      \* handleMessage calls suspended in their decode await
MaxAppend   == 12     \* transcript entries appended in the transcript spec
MaxFrag     == 1      \* length of a pending transcript fragment
PlayTime    == 5      \* cap of the output clock in the playback spec
MaxFrames   == 2      \* microphone frames captured by one pipeline
MaxBatch    == 2      \* handleMessage calls with state updates between renders
TextFrag    == 2      \* length of a fragment in the accumulation spec

----------------------------------------------------------------------------
(* Program constants *)
LogSlice == 10        \* prev.slice(-10) in addMessage

NULL == 0
IDLE       == "IDLE"
CONNECTING == "CONNECTING"
CONNECTED  == "CONNECTED"
ERROR      == "ERROR"
ConnectionStatus == {IDLE, CONNECTING, CONNECTED, ERROR}

Attempts  == 1..MaxAttempts
Durations == {1, 2}
NoText    == <<"absent">>
Texts     == {<<"a">>, <<" ">>}
NoAudio   == 0
BadAudio  == -1

Max(x, y) == IF x >= y THEN x ELSE y

VARIABLES
  status,            \* useState status: the value once the queued setStatus
                     \* calls are applied (the last value set)
  shown,             \* the status of the last render, from which the
                     \* buttons on screen are taken
  messages,          \* useState messages (the transcript log)
  currentInput,      \* useState currentInput (pending user fragment)
  currentOutput,     \* useState currentOutput (pending agent fragment)
  nextStartTime,     \* nextStartTimeRef.current (the playback cursor)
  audioContexts,     \* audioContextsRef.current: NULL or the owning attempt
  audioSources,      \* audioSourcesRef.current: the active sources
  sessionRef,        \* sessionRef.current: NULL or the owning attempt
  streamRef,         \* streamRef.current: NULL or the owning attempt
  pc,                \* position of every startSession call
  stream,            \* microphone stream of every attempt
  ctx,               \* audio context pair of every attempt
  sess,              \* service session of every attempt
  wired,             \* attempts whose capture pipeline is wired on a
                     \* running input context
  mic,               \* per attempt: the frames its pipeline captured, those
                     \* whose delivery waits for sessionPromise, and those
                     \* handed to session.sendRealtimeInput, in order
  pending,           \* handleMessage calls suspended at the decode await
  sched,             \* start and duration of the buffers scheduled since
                     \* the last stopAllAudio, in enqueue order
  stamp,             \* number of transcript entries appended so far
  heard,             \* the transcription texts received since the last
                     \* turnComplete, per side, in arrival order
  updates,           \* the updaters handed to setCurrentInput and to
                     \* setCurrentOutput that React has not applied yet
  due,               \* the fragments (role, text) that the turnComplete
                     \* messages received since the last render hand over
  batch,             \* the handleMessage calls since the last render that
                     \* queued an updater
  last               \* what the last step did

appVars == <<status, messages, currentInput, currentOutput, nextStartTime,
             audioContexts, audioSources, sessionRef, streamRef>>
envVars == <<pc, stream, ctx, sess, wired, mic, pending, sched, stamp, heard,
            updates, due, batch>>
vars == <<appVars, envVars, shown, last>>

textVars  == <<messages, currentInput, currentOutput, stamp, heard, updates,
               due, batch>>
audioVars == <<nextStartTime, audioSources, pending, sched>>
refVars   == <<audioContexts, sessionRef, streamRef>>
worldVars == <<stream, ctx, sess>>

(* States of a service session: "connecting" from the connect call to the  *)
(* open notification ("failing" if it reported an error meanwhile: it can  *)
(* no longer open), then "open"; "closing" once the component has called   *)
(* close() and the close notification is still to come; "closed" once the  *)
(* connection of a session that had opened ended and the component did not *)
(* call close(); "refused" once the connection ended before it opened (or  *)
(* the connect failed); "shut" when both the component's close() and the   *)
(* end of the connection have happened.                                    *)
SessionStates ==
  {"none", "connecting", "failing", "open", "closing", "closed", "refused",
   "shut"}
isActive(st) == st \in {"connecting", "open"}
appClosed(st) == st \in {"closing", "shut"}

----------------------------------------------------------------------------
(* What a step did: the operation, the resources it released, whether it   *)
(* ran stopSession (the status it found, and whether the step before ran   *)
(* it too) or stopAllAudio (and whether it found the cursor advanced),     *)
(* whether a source.stop() threw and was swallowed, whether a release hit a *)
(* resource that the component had released before, and the message that   *)
(* handleMessage was called with ("-" in any other step), the number of    *)
(* sources stopAllAudio found in the set, the output context's currentTime *)
(* that line 80 read (-1 in a step that does not read it), and the         *)
(* fragments that were due to be flushed by the render of the step ("-" in *)
(* a step that is not a render), and whether the step is a                 *)
(* handleMessage call that follows one whose payload failed to decode.     *)
Did(op, rel, stop, stopAll, swallowed, fault) ==
  [op |-> op, from |-> IF stop THEN status ELSE "-", rel |-> rel, stop |-> stop,
   again |-> stop /\ last.stop, stopAll |-> stopAll,
   advanced |-> stopAll /\ nextStartTime > 0,
   swallowed |-> swallowed, fault |-> fault, msg |-> "-",
   cut |-> IF stopAll THEN Cardinality(audioSources) ELSE 0, now |-> -1,
   turn |-> "-", afterBad |-> FALSE]

Plain(op) == Did(op, {}, FALSE, FALSE, FALSE, FALSE)

Init ==
  /\ status = IDLE
  /\ shown = IDLE
  /\ messages = <<>>
  /\ currentInput = <<>>
  /\ currentOutput = <<>>
  /\ nextStartTime = 0
  /\ audioContexts = NULL
  /\ audioSources = {}
  /\ sessionRef = NULL
  /\ streamRef = NULL
  /\ pc = [a \in Attempts |-> "new"]
  /\ stream = [a \in Attempts |-> "none"]
  /\ ctx = [a \in Attempts |-> "none"]
  /\ sess = [a \in Attempts |-> "none"]
  /\ wired = {}
  /\ mic = [a \in Attempts |-> [captured |-> 0, queue |-> <<>>, sent |-> <<>>]]
  /\ pending = <<>>
  /\ sched = <<>>
  /\ stamp = 0
  /\ heard = [user |-> <<>>, agent |-> <<>>]
  /\ updates = [input |-> <<>>, output |-> <<>>]
  /\ due = <<>>
  /\ batch = 0
  /\ last = [op |-> "init", from |-> "-", rel |-> {}, stop |-> FALSE,
             again |-> FALSE, stopAll |-> FALSE, advanced |-> FALSE,
             swallowed |-> FALSE, fault |-> FALSE, msg |-> "-", cut |-> 0,
             now |-> -1, turn |-> "-", afterBad |-> FALSE]

----------------------------------------------------------------------------
(* Transcript log *)

\* text.trim() is empty: the text holds nothing but white space
isBlank(text) == \A i \in 1..Len(text) : text[i] = " "

\* prev.slice(-10): the last LogSlice elements of prev
sliceLast(prev) ==
  IF Len(prev) <= LogSlice THEN prev
  ELSE SubSeq(prev, Len(prev) - LogSlice + 1, Len(prev))

\* addMessage(role, text) applied to the log prev; the timestamp of the new
\* entry is modelled by its append number n
addMessageRaw(prev, role, text, n) ==
  Append(sliceLast(prev), [role |-> role, text |-> text, timestamp |-> n])
addMessage(prev, role, text, n) ==
  IF isBlank(text) THEN prev
  ELSE Append(sliceLast(prev), [role |-> role, text |-> text, timestamp |-> n])

----------------------------------------------------------------------------
(* Playback scheduler *)

\* lines 37-39: whether some source.stop() of the loop throws and the error
\* is swallowed; on a source that played to its end a browser may throw or
\* return normally
stopThrows(set) ==
  IF \E src \in set : src.ended THEN {TRUE, FALSE} ELSE {FALSE}

\* lines 40-41: the set and the cursor after stopAllAudio
stopAllAudioLive(set, cursor) ==
  [audioSources |-> {src \in set : src.ended}, nextStartTime |-> 0]
stopAllAudioLeak(set, cursor) == [audioSources |-> {}, nextStartTime |-> cursor]
stopAllAudioKeep(set, cursor) == [audioSources |-> set, nextStartTime |-> 0]
stopAllAudio(set, cursor) == [audioSources |-> {}, nextStartTime |-> 0]

\* line 80: Math.max(nextStartTimeRef.current, outputCtx.currentTime)
startTimeCursor(cursor, now) == cursor
startTimeNow(cursor, now) == now
startTime(cursor, now) == Max(cursor, now)

----------------------------------------------------------------------------
(* stopSession *)

\* lines 155, 159, 164: the reference is nulled after its release
keptRef(ref) == ref
clearedRef(ref) == NULL

\* line 154: sessionRef.current.close()
closedState(st) == IF st \in {"connecting", "open"} THEN "closing"
                   ELSE IF st = "closed" THEN "shut" ELSE st
closeSession(s, ref) ==
  IF ref = NULL THEN s ELSE [s EXCEPT ![ref] = closedState(@)]

\* line 158: every track of streamRef.current is stopped
keepTracks(st, ref) == st
stopTracks(st, ref) == IF ref = NULL THEN st ELSE [st EXCEPT ![ref] = "released"]

\* lines 162-163: both contexts of audioContextsRef.current are closed
closeContexts(c, ref) == IF ref = NULL THEN c ELSE [c EXCEPT ![ref] = "closed"]

\* the releases stopSession performs in the current state
released ==
  (IF sessionRef # NULL THEN {"session"} ELSE {})
    \cup (IF streamRef # NULL THEN {"stream"} ELSE {})
    \cup (IF audioContexts # NULL THEN {"contexts"} ELSE {})

\* a release that hits a resource the component released before, with the
\* sessions in state s
doubleRelease(s) ==
  \/ sessionRef # NULL /\ appClosed(s[sessionRef])
  \/ streamRef # NULL /\ stream[streamRef] = "released"
  \/ audioContexts # NULL /\ ctx[audioContexts] = "closed"

\* lines 152-168, run from operation op; s is the sessions' state when the
\* call starts
stopSession(op, s) ==
  /\ sess' = closeSession(s, sessionRef)
  /\ sessionRef' = (IF sessionRef # NULL THEN clearedRef(sessionRef) ELSE NULL)
  /\ stream' = stopTracks(stream, streamRef)
  /\ streamRef' = (IF streamRef # NULL THEN clearedRef(streamRef) ELSE NULL)
  /\ ctx' = closeContexts(ctx, audioContexts)
  /\ audioContexts' = (IF audioContexts # NULL THEN clearedRef(audioContexts) ELSE NULL)
  /\ audioSources' = stopAllAudio(audioSources, nextStartTime).audioSources
  /\ nextStartTime' = stopAllAudio(audioSources, nextStartTime).nextStartTime
  /\ sched' = <<>>
  /\ status' = IDLE
  /\ \E threw \in stopThrows(audioSources) :
       last' = Did(op, released, TRUE, TRUE, threw, doubleRelease(s))

\* the End Call button (lines 191-198), on screen when the last render
\* found the status CONNECTED
StopClick ==
  /\ shown = CONNECTED
  /\ stopSession("stopSession", sess)
  /\ UNCHANGED <<shown, textVars, pending, pc, wired, mic>>

\* onclose (lines 137-140): the connection of attempt a has ended, on the
\* service's side or after the component's close()
OnClose(a) ==
  /\ sess[a] \in {"connecting", "failing", "open", "closing"}
  /\ stopSession("onclose",
                 [sess EXCEPT ![a] = IF @ = "closing" THEN "shut"
                                     ELSE IF @ = "open" THEN "closed"
                                     ELSE "refused"])
  /\ UNCHANGED <<shown, textVars, pending, pc, wired, mic>>

----------------------------------------------------------------------------
(* startSession and the callbacks of its session *)

\* the attempts not started yet, among the first k
fresh(k) == {a \in 1..k : pc[a] = "new"}

\* the attempt the next startSession call is
nextAttempt(k) == CHOOSE a \in fresh(k) : \A b \in fresh(k) : a <= b

\* Start Consultation (lines 211-218, on screen when the last render found
\* the status IDLE) or Retry Connection (lines 220-227, when it found ERROR):
\* startSession runs up to its first await (lines 89-95).  Once k
\* attempts have started, the getUserMedia call of a further one stays
\* pending for good.
StartSession(k) ==
  /\ shown \in {IDLE, ERROR}
  /\ pc' = IF fresh(k) # {} THEN [pc EXCEPT ![nextAttempt(k)] = "media"] ELSE pc
  /\ status' = CONNECTING
  /\ last' = Plain("startSession")
  /\ UNCHANGED <<shown, textVars, audioVars, refVars, worldVars, wired, mic>>

\* getUserMedia resolves: lines 96-102, up to the await of line 144
MediaResolve(a) ==
  /\ pc[a] = "media"
  /\ stream' = [stream EXCEPT ![a] = "live"]
  /\ streamRef' = a
  /\ ctx' = [ctx EXCEPT ![a] = "live"]
  /\ audioContexts' = a
  /\ sess' = [sess EXCEPT ![a] = "connecting"]
  /\ pc' = [pc EXCEPT ![a] = "connect"]
  /\ last' = Plain("getUserMedia")
  /\ UNCHANGED <<status, shown, textVars, audioVars, sessionRef, wired, mic>>

\* getUserMedia rejects: the catch of lines 146-149
MediaReject(a) ==
  /\ pc[a] = "media"
  /\ pc' = [pc EXCEPT ![a] = "done"]
  /\ status' = ERROR
  /\ last' = Plain("catch")
  /\ UNCHANGED <<shown, textVars, audioVars, refVars, worldVars, wired, mic>>

\* onopen (lines 114-131).  The capture pipeline is wired on the attempt's
\* own stream and input context; on a context that was closed meanwhile,
\* createMediaStreamSource either throws or yields a dead pipeline, whose
\* processor never fires: wired holds the pipelines that do.
OnOpen(a) ==
  /\ sess[a] = "connecting"
  /\ sess' = [sess EXCEPT ![a] = "open"]
  /\ status' = CONNECTED
  /\ wired' = IF ctx[a] = "live" THEN wired \cup {a} ELSE wired
  /\ last' = Plain("onopen")
  /\ UNCHANGED <<shown, textVars, audioVars, refVars, stream, ctx, pc, mic>>

\* lines 124-126: the then-callbacks registered on sessionPromise while it
\* was pending run, in the order of their registration, once it resolves
drained(m) == [m EXCEPT !.sent = @ \o m.queue, !.queue = <<>>]

\* the connect call resolves, after the open notification, also when the
\* connection has ended since: line 144
ConnectResolve(a) ==
  /\ pc[a] = "connect"
  /\ sess[a] \in {"open", "closed"}
  /\ sessionRef' = a
  /\ pc' = [pc EXCEPT ![a] = "done"]
  /\ mic' = [mic EXCEPT ![a] = drained(@)]
  /\ last' = Plain("connected")
  /\ UNCHANGED <<status, shown, textVars, audioVars, audioContexts, streamRef,
                 worldVars, wired>>

\* the connect call rejects, before any open notification: lines 146-149
ConnectReject(a) ==
  /\ pc[a] = "connect"
  /\ sess[a] \in {"connecting", "failing"}
  /\ sess' = [sess EXCEPT ![a] = "refused"]
  /\ pc' = [pc EXCEPT ![a] = "done"]
  /\ status' = ERROR
  /\ last' = Plain("catch")
  /\ UNCHANGED <<shown, textVars, audioVars, refVars, stream, ctx, wired, mic>>

\* lines 124-126: sessionPromise.then(session => session.sendRealtimeInput
\* ({media: blob})) for frame n; the callback runs at once on a resolved
\* promise and waits for the resolution on a pending one
handOverIfReady(m, n, resolved) ==
  IF resolved THEN [m EXCEPT !.captured = n, !.sent = Append(@, n)]
  ELSE [m EXCEPT !.captured = n]
handOver(m, n, resolved) ==
  IF resolved THEN [m EXCEPT !.captured = n, !.sent = Append(@, n)]
  ELSE [m EXCEPT !.captured = n, !.queue = Append(@, n)]

\* processor.onaudioprocess (lines 121-127) of the pipeline that the onopen
\* of attempt a wired on a running input context; the handler has no guard
\* of its own, and audioprocess events are still delivered after the
\* context was closed
OnAudioProcess(a) ==
  /\ a \in wired
  /\ mic[a].captured < MaxFrames
  /\ mic' = [mic EXCEPT ![a] = handOver(@, @.captured + 1, pc[a] = "done")]
  /\ last' = Plain("onaudioprocess")
  /\ UNCHANGED <<appVars, shown, pc, stream, ctx, sess, wired, pending, sched, stamp,
                 heard, updates, due, batch>>

\* onerror (lines 133-136)
OnError(a) ==
  /\ isActive(sess[a])
  /\ sess' = [sess EXCEPT ![a] = IF @ = "connecting" THEN "failing" ELSE @]
  /\ status' = ERROR
  /\ last' = Plain("onerror")
  /\ UNCHANGED <<shown, textVars, audioVars, refVars, pc, stream, ctx, wired, mic>>

----------------------------------------------------------------------------
(* handleMessage *)

\* messages of the service: optional transcription texts, the turnComplete
\* and interrupted flags, and an audio payload given by the duration of the
\* buffer it decodes to (NoAudio: none, BadAudio: one that fails to decode);
\* PlayMsgs adds the payloads that fail to decode.
\* In the messages of the audio traffic, which carry no transcription, the
\* turnComplete flag has nothing to flush and is left out.
AudioMsgs ==
  [inT : {NoText}, outT : {NoText}, turnComplete : {FALSE},
   interrupted : BOOLEAN, audio : {NoAudio} \cup Durations]

PlayMsgs ==
  [inT : {NoText}, outT : {NoText}, turnComplete : {FALSE},
   interrupted : BOOLEAN, audio : {NoAudio, BadAudio} \cup Durations]

TextMsgs ==
  [inT : {NoText} \cup Texts, outT : {NoText} \cup Texts,
   turnComplete : BOOLEAN, interrupted : {FALSE}, audio : {NoAudio}]

\* line 74: decode and decodeAudioData turn a well-formed payload into a
\* buffer of the payload's duration, and fail on any other
decodes(audio) == audio \in Durations

\* the texts a message adds to those received on one side
said(t) == IF t = NoText THEN <<>> ELSE <<t>>

\* the concatenation of a sequence of texts, in order
RECURSIVE flat(_)
flat(texts) == IF texts = <<>> THEN <<>> ELSE Head(texts) \o flat(Tail(texts))

\* lines 46-51: a partial transcription is appended to the fragment
accumulateReplace(prev, t) == IF t = NoText THEN prev ELSE t
accumulate(prev, t) == IF t = NoText THEN prev ELSE prev \o t

\* lines 55-58 and 59-62: the log after the flush of one fragment
flush(log, role, final, n) ==
  IF final # <<>> THEN addMessage(log, role, final, n) ELSE log

\* lines 46-63: the updaters one handleMessage call hands to setCurrentInput
\* (or to setCurrentOutput): prev => prev + text for a transcription text t,
\* then the flush updater on turnComplete
updaters(t, turnComplete) ==
  (IF t = NoText THEN <<>> ELSE <<[kind |-> "append", text |-> t]>>)
  \o (IF turnComplete THEN <<[kind |-> "flush", text |-> <<>>]>> ELSE <<>>)

\* the queued updaters of one state hook run in order on the fragment frag;
\* a flush updater calls addMessage (lines 55, 59), whose setMessages
\* updaters take effect in the order of the calls
RECURSIVE applied(_, _, _, _, _)
applied(queue, frag, role, log, n) ==
  IF queue = <<>> THEN [frag |-> frag, log |-> log, n |-> n]
  ELSE LET u    == Head(queue)
           log1 == flush(log, role, frag, n + 1)
       IN IF u.kind = "append"
            THEN applied(Tail(queue), accumulate(frag, u.text), role, log, n)
            ELSE applied(Tail(queue), <<>>, role, log1,
                         IF log1 = log THEN n ELSE n + 1)

\* the fragments once the queued updaters are applied
pendingInput ==
  applied(updates.input, currentInput, "user", messages, stamp).frag
pendingOutput ==
  applied(updates.output, currentOutput, "agent", messages, stamp).frag

\* React renders the component: the status set last becomes the one on
\* screen (lines 20, 191-228), the updaters queued on currentInput run, then
\* those queued on currentOutput (lines 22-23, 46-63)
Render ==
  /\ shown # status \/ updates.input # <<>> \/ updates.output # <<>>
  /\ shown' = status
  /\ LET i == applied(updates.input, currentInput, "user", messages, stamp)
         o == applied(updates.output, currentOutput, "agent", i.log, i.n)
     IN /\ currentInput' = i.frag
        /\ currentOutput' = o.frag
        /\ messages' = o.log
        /\ stamp' = o.n
  /\ updates' = [input |-> <<>>, output |-> <<>>]
  /\ due' = <<>>
  /\ batch' = 0
  /\ last' = [Plain("render") EXCEPT !.turn = due]
  /\ UNCHANGED <<status, heard, audioVars, refVars, worldVars, pc, wired, mic>>

\* line 72: the message carries audio and the contexts are in place
audioBranch(audio, ctxRef) == audio # NoAudio /\ ctxRef # NULL

queuedAnyway(q, audio, ctxRef) ==
  IF audioBranch(audio, ctxRef)
    THEN Append(q, [ctx |-> ctxRef, dur |-> audio])
    ELSE q

\* lines 72-74: the calls suspended in the decode await, oldest first; a
\* payload that fails to decode ends its call there
queued(q, audio, ctxRef) ==
  IF audioBranch(audio, ctxRef) /\ decodes(audio)
    THEN Append(q, [ctx |-> ctxRef, dur |-> audio])
    ELSE q

\* handleMessage(m), called for the session of attempt a, up to its await
\* (lines 44-74); the text part (lines 46-63) queues state updaters, which
\* run at the next render
HandleMessage(a, m) ==
  LET cut      == stopAllAudio(audioSources, nextStartTime)
      decoding == decodes(m.audio) /\ audioContexts # NULL
  IN
  /\ sess[a] = "open"
  /\ decoding => Len(pending) < MaxPending
  /\ updates' =
       [input  |-> updates.input \o updaters(m.inT, m.turnComplete),
        output |-> updates.output \o updaters(m.outT, m.turnComplete)]
  /\ batch' = IF updates' = updates THEN batch ELSE batch + 1
  /\ IF m.turnComplete
       THEN /\ heard' = [user |-> <<>>, agent |-> <<>>]
            /\ due' = due \o
                 <<[role |-> "user", text |-> flat(heard.user \o said(m.inT))],
                   [role |-> "agent",
                    text |-> flat(heard.agent \o said(m.outT))]>>
       ELSE /\ heard' = [user  |-> heard.user \o said(m.inT),
                         agent |-> heard.agent \o said(m.outT)]
            /\ due' = due
  /\ IF m.interrupted
       THEN /\ audioSources' = cut.audioSources
            /\ nextStartTime' = cut.nextStartTime
            /\ sched' = <<>>
       ELSE UNCHANGED <<audioSources, nextStartTime, sched>>
  /\ pending' = queued(pending, m.audio, audioContexts)
  /\ \E threw \in IF m.interrupted THEN stopThrows(audioSources) ELSE {FALSE} :
       last' = [Did("handleMessage", {}, FALSE, m.interrupted, threw, FALSE)
                  EXCEPT !.msg = m,
                         !.afterBad = /\ last.op = "handleMessage"
                                      /\ last.msg.audio = BadAudio]
  /\ UNCHANGED <<status, shown, messages, currentInput, currentOutput, stamp, refVars,
                 worldVars, pc, wired, mic>>

\* the decode await of line 74 resumes, oldest call first, when the output
\* context's currentTime is now: lines 76-85 (cap bounds the cursor)
EnqueueAt(now, cap) ==
  /\ pending # <<>>
  /\ LET p  == Head(pending)
         at == startTime(nextStartTime, now)
     IN /\ at + p.dur <= cap
        /\ audioSources' = audioSources \cup
             {[ctx |-> p.ctx, start |-> at, dur |-> p.dur, ended |-> FALSE]}
        /\ nextStartTime' = at + p.dur
        /\ sched' = Append(sched, [start |-> at, dur |-> p.dur])
  /\ pending' = Tail(pending)
  /\ last' = [Plain("enqueue") EXCEPT !.now = now]
  /\ UNCHANGED <<status, shown, textVars, refVars, worldVars, pc, wired, mic>>

Enqueue(now) == EnqueueAt(now, MaxTime)

\* the same resumption on an output context that was closed meanwhile, where
\* createBufferSource may throw instead: the handler ends there
EnqueueThrows ==
  /\ pending # <<>>
  /\ ctx[Head(pending).ctx] = "closed"
  /\ pending' = Tail(pending)
  /\ last' = Plain("enqueueThrows")
  /\ UNCHANGED <<appVars, shown, pc, stream, ctx, sess, wired, mic, sched, stamp,
                 heard, updates, due, batch>>

\* a scheduled source plays to its end on a running context
SourceEnds(src) ==
  /\ src \in audioSources
  /\ ~src.ended
  /\ ctx[src.ctx] = "live"
  /\ audioSources' = (audioSources \ {src}) \cup {[src EXCEPT !.ended = TRUE]}
  /\ last' = Plain("ended")
  /\ UNCHANGED <<status, shown, textVars, nextStartTime, pending, sched, refVars,
                 worldVars, pc, wired, mic>>

\* source.onended (line 85) of a source that played to its end
OnEnded(src) ==
  /\ src \in audioSources
  /\ src.ended
  /\ audioSources' = audioSources \ {src}
  /\ last' = Plain("onended")
  /\ UNCHANGED <<status, shown, textVars, nextStartTime, pending, sched, refVars,
                 worldVars, pc, wired, mic>>

----------------------------------------------------------------------------
(* Specifications *)

Lifecycle(k) ==
  \/ StartSession(k)
  \/ StopClick
  \/ Render
  \/ \E a \in Attempts : OnClose(a)
  \/ \E a \in Attempts : MediaResolve(a)
  \/ \E a \in Attempts : MediaReject(a)
  \/ \E a \in Attempts : OnOpen(a)
  \/ \E a \in Attempts : ConnectResolve(a)
  \/ \E a \in Attempts : ConnectReject(a)
  \/ \E a \in Attempts : OnError(a)

\* the lifecycle of one session with audio traffic: the getUserMedia call of
\* a restart after it stays pending
Next ==
  \/ Lifecycle(1)
  \/ \E a \in Attempts, m \in AudioMsgs : HandleMessage(a, m)
  \/ \E now \in 0..MaxTime : Enqueue(now)
  \/ EnqueueThrows
  \/ \E src \in audioSources : SourceEnds(src)
  \/ \E src \in audioSources : OnEnded(src)

Spec == Init /\ [][Next]_vars

\* the session lifecycle alone, over more attempts
NextLife == Lifecycle(MaxAttempts)

SpecLife == Init /\ [][NextLife]_vars

\* the session lifecycle with the microphone frames of the capture pipelines
NextCapture ==
  \/ Lifecycle(AudioAttempts)
  \/ \E a \in Attempts : OnAudioProcess(a)

SpecCapture == Init /\ [][NextCapture]_vars

\* the Start click of a behaviour with a single session
StartOnce == pc[1] = "new" /\ StartSession(1)

\* one session that stays open, with audio traffic up to PlayTime
NextPlay ==
  \/ StartOnce
  \/ MediaResolve(1)
  \/ OnOpen(1)
  \/ ConnectResolve(1)
  \/ \E m \in AudioMsgs : HandleMessage(1, m)
  \/ \E now \in 0..PlayTime : EnqueueAt(now, PlayTime)
  \/ \E src \in audioSources : SourceEnds(src)
  \/ \E src \in audioSources : OnEnded(src)

SpecPlay == Init /\ [][NextPlay]_vars

\* one session that stays open, with audio traffic up to MaxTime, payloads
\* that fail to decode included
NextSkip ==
  \/ StartOnce
  \/ MediaResolve(1)
  \/ OnOpen(1)
  \/ ConnectResolve(1)
  \/ \E m \in PlayMsgs : HandleMessage(1, m)
  \/ \E now \in 0..MaxTime : Enqueue(now)
  \/ \E src \in audioSources : SourceEnds(src)
  \/ \E src \in audioSources : OnEnded(src)

SpecSkip == Init /\ [][NextSkip]_vars

\* one session with transcription traffic.  Fragments of several partial
\* transcriptions are explored up to the first entry of the log, single
\* ones from there on.
fragCap == IF stamp = 0 THEN MaxFrag ELSE 1

TextTraffic ==
  \E m \in TextMsgs :
    /\ stamp < MaxAppend
    /\ updates = [input |-> <<>>, output |-> <<>>]
    /\ Len(flat(heard.user \o said(m.inT))) <= fragCap
    /\ Len(flat(heard.agent \o said(m.outT))) <= fragCap
    /\ HandleMessage(1, m)

NextLog ==
  \/ StartOnce
  \/ MediaResolve(1)
  \/ OnOpen(1)
  \/ ConnectResolve(1)
  \/ TextTraffic
  \/ Render

SpecLog == Init /\ [][NextLog]_vars

\* the transcription messages of the accumulation spec: every message that
\* queues an updater, the agent's texts drawn from the visible one
TurnMsgs ==
  {m \in TextMsgs : /\ m.outT \in {NoText, <<"a">>}
                    /\ m.inT # NoText \/ m.outT # NoText \/ m.turnComplete}

\* one session with transcription traffic up to the render that appends the
\* first entries: fragments of several partial transcriptions and several
\* messages between two renders
TextTurns ==
  \E m \in TurnMsgs :
    /\ stamp = 0
    /\ Len(flat(heard.user \o said(m.inT))) <= TextFrag
    /\ Len(flat(heard.agent \o said(m.outT))) <= TextFrag
    /\ batch < MaxBatch
    /\ HandleMessage(1, m)

NextText ==
  \/ StartOnce
  \/ MediaResolve(1)
  \/ OnOpen(1)
  \/ ConnectResolve(1)
  \/ TextTurns
  \/ Render

SpecText == Init /\ [][NextText]_vars

TypeOK ==
  /\ status \in ConnectionStatus
  /\ shown \in ConnectionStatus
  /\ nextStartTime \in 0..Max(MaxTime, PlayTime)
  /\ {audioContexts, sessionRef, streamRef} \subseteq Attempts \cup {NULL}
  /\ \A a \in Attempts : sess[a] \in SessionStates
  /\ Len(pending) <= MaxPending
  /\ Len(sched) <= Max(MaxTime, PlayTime)
  /\ heard.user \in Seq(Texts) /\ heard.agent \in Seq(Texts)
  /\ batch \in 0..Max(MaxBatch, 1)
  /\ \A a \in Attempts : mic[a].captured \in 0..MaxFrames

----------------------------------------------------------------------------
(* Properties of the transcript log *)

\* C1: the log holds at most 10 entries, and they are the last ones
\* appended, in the order of their appending
C1_LogKeepsLastTen ==
  /\ Len(messages) <= 10
  /\ \A i \in 1..Len(messages) :
       messages[i].timestamp = stamp - Len(messages) + i

----------------------------------------------------------------------------
(* Properties of the playback scheduler *)

\* C2: among the buffers enqueued with no stopAllAudio in between, every
\* start time is at or after the previous start time plus the previous
\* duration, whatever the context time was at each enqueue
C2_NoOverlap ==
  \A i \in 1..(Len(sched) - 1) :
    /\ sched[i + 1].start >= sched[i].start
    /\ sched[i + 1].start >= sched[i].start + sched[i].dur

\* a second buffer was enqueued at a context time that was not past the
\* end of the first: it starts exactly where the first ends
C2_Witness ==
  /\ last.op = "enqueue"
  /\ Len(sched) >= 2
  /\ sched[2].start = sched[1].start + sched[1].dur

\* C3: a step that runs stopAllAudio leaves the active-source set empty and
\* the cursor at 0, and changes neither when the step before ran it too
C3_StopAllResets ==
  [][last'.stopAll =>
       /\ audioSources' = {}
       /\ nextStartTime' = 0
       /\ last.stopAll => UNCHANGED <<audioSources, nextStartTime>>]_vars

\* stopAllAudio ran on a set that held sources, with the cursor advanced
C3_Witness ==
  /\ last.stopAll /\ last.advanced /\ last.cut >= 1
  /\ audioSources = {} /\ nextStartTime = 0

----------------------------------------------------------------------------
(* Properties of the session lifecycle *)

\* C4: no session is opened (connecting or open) while another session is
\* open: at most one session handle is active at a time
C4_OneActiveSession ==
  \A a, b \in Attempts : (a # b /\ sess[a] = "open") => ~isActive(sess[b])

\* C5: a step that runs stopSession from Connected (the End Call button or
\* the close notification) stops the tracks of the stream held, closes the
\* contexts held, and leaves both references absent, the active-source set
\* empty, the cursor at 0 and the status Idle
C5_ConnectedToIdleReleases ==
  [][(status = CONNECTED /\ last'.stop) =>
       /\ status' = IDLE
       /\ streamRef' = NULL /\ audioContexts' = NULL
       /\ audioSources' = {} /\ nextStartTime' = 0
       /\ streamRef # NULL => stream'[streamRef] = "released"
       /\ audioContexts # NULL => ctx'[audioContexts] = "closed"
       /\ last'.stopAll]_vars

\* the close notification took a Connected session with audio scheduled to
\* Idle, releasing its stream and contexts
C5_Witness ==
  /\ last.op = "onclose" /\ last.from = CONNECTED
  /\ {"stream", "contexts"} \subseteq last.rel
  /\ last.advanced
  /\ \E a \in Attempts : stream[a] = "released" /\ ctx[a] = "closed"

\* C6: whenever startSession begins, the active-source set is empty
C6_DrainedBeforeStart == last.op = "startSession" => audioSources = {}

\* C7: the cursor never decreases, except in a step that runs stopAllAudio,
\* which sets it to 0 and empties the active-source set
C7_CursorMonotone ==
  [][nextStartTime' < nextStartTime =>
       (last'.stopAll /\ nextStartTime' = 0 /\ audioSources' = {})]_vars

\* an interruption reset a cursor that had advanced, with sources active
C7_Witness ==
  /\ last.op = "handleMessage" /\ last.stopAll
  /\ last.advanced /\ last.cut >= 1 /\ nextStartTime = 0

\* C8: after a stopSession that runs while a start attempt awaits its
\* connect call, nothing that attempt acquired is still held: its stream is
\* not live, its contexts are not live, its session is not active
C8_StopWhileConnecting ==
  \A a \in Attempts :
    (last.stop /\ pc[a] = "connect") =>
      (stream[a] # "live" /\ ctx[a] # "live" /\ ~isActive(sess[a]))

\* C9: no release ever hits a resource the component released before, and a
\* stopSession that directly follows another releases nothing and leaves
\* the component's state, the streams and the contexts as they were, and
\* closes no session
C9_StopIdempotent ==
  [][/\ ~last'.fault
     /\ (last.stop /\ last'.stop) =>
          /\ last'.rel = {}
          /\ UNCHANGED <<appVars, stream, ctx>>
          /\ \A a \in Attempts : appClosed(sess'[a]) <=> appClosed(sess[a])]_vars

\* stopSession ran twice in a row, on a session that had been connected and
\* whose resources the first call released
C9_Witness ==
  /\ last.stop /\ last.again
  /\ \E a \in Attempts :
       stream[a] = "released" /\ ctx[a] = "closed" /\ sess[a] = "shut"

\* C10: from Error the status only ever moves to Connecting
C10_ErrorUntilRestart ==
  [][status = ERROR => status' \in {ERROR, CONNECTING}]_vars

\* the text a message carries on one side, as a fragment
textOf(t) == IF t = NoText THEN <<>> ELSE t

\* a fragment with a character that is not white space
hasInk(frag) == \E i \in 1..Len(frag) : frag[i] # " "

\* the entries a step appended to the log, without their timestamps
appended ==
  LET k == stamp' - stamp
  IN [i \in 1..k |->
        [role |-> messages'[Len(messages') - k + i].role,
         text |-> messages'[Len(messages') - k + i].text]]

nonEmpty(frag) == frag # <<>>

\* how often the entry e occurs in a sequence of entries
count(entries, e) == Cardinality({i \in DOMAIN entries : entries[i] = e})

\* a turnComplete leaves both pending fragments empty, and the render that
\* follows appends one entry, tagged with its role, for each fragment due
\* that counts and no other entry; a fragment counts if it has ink or, with
\* inkOnly false, is non-empty
turnFlushes(inkOnly) ==
  /\ (last'.op = "handleMessage" /\ last'.msg.turnComplete) =>
       (pendingInput' = <<>> /\ pendingOutput' = <<>>)
  /\ last'.op = "render" =>
       LET counts(frag) == IF inkOnly THEN hasInk(frag) ELSE nonEmpty(frag)
       IN \A e \in {appended[i] : i \in DOMAIN appended}
                      \cup {due[i] : i \in DOMAIN due} :
            count(appended, e) = IF counts(e.text) THEN count(due, e) ELSE 0

\* C11 as stated: on turnComplete every non-empty pending fragment is flushed
\* into the log as exactly one entry tagged with its role, an empty fragment
\* gives no entry, and both fragments are empty afterwards
C11_FlushNonEmpty == [][turnFlushes(FALSE)]_vars

\* C11 amended: on turnComplete every pending fragment that holds a character
\* other than white space is flushed into the log as exactly one entry tagged
\* with its role, an empty or white-space-only fragment gives no entry, and
\* both fragments are empty afterwards
C11_FlushVisible == [][turnFlushes(TRUE)]_vars

\* a turn with user fragment "a " and an empty agent fragment left exactly one
\* entry, of the user
C11_Witness ==
  /\ last.op = "render"
  /\ last.turn = <<[role |-> "user", text |-> <<"a", " ">>],
                   [role |-> "agent", text |-> <<>>]>>
  /\ Len(messages) = 1
  /\ messages[1].role = "user"
  /\ messages[1].text = <<"a", " ">>
  /\ currentInput = <<>>
  /\ currentOutput = <<>>

\* C12: a message with the interruption signal removes every source that was
\* scheduled before it from the set, after stop() was called on each, and
\* resets the cursor to 0
C12_InterruptionStops ==
  [][(last'.op = "handleMessage" /\ last'.msg.interrupted) =>
       /\ \A src \in audioSources : src \notin audioSources'
       /\ last'.cut = Cardinality(audioSources)
       /\ nextStartTime' = 0]_vars

\* three chunks were scheduled and still in the set when the interruption
\* came: all three are gone and the cursor is 0
C12_Witness ==
  /\ last.op = "handleMessage"
  /\ last.msg.interrupted
  /\ last.cut = 3
  /\ audioSources = {}
  /\ nextStartTime = 0

\* C13: the first chunk starts at the context time of its enqueue, and a
\* chunk enqueued no later than the end of the buffer scheduled before it
\* (context time <= cursor) starts at that buffer's start + its duration
C13_Gapless ==
  [][last'.op = "enqueue" =>
       LET n == Len(sched)
       IN /\ Len(sched') = n + 1
          /\ n = 0 => sched'[1].start = last'.now
          /\ (n > 0 /\ last'.now <= nextStartTime) =>
                sched'[n + 1].start = sched[n].start + sched[n].dur]_vars

\* durations 2, 1, 1 first enqueued at context time 1: starts 1, 3, 4
C13_Witness ==
  /\ last.op = "enqueue"
  /\ last.now <= 4
  /\ sched = <<[start |-> 1, dur |-> 2], [start |-> 3, dur |-> 1],
               [start |-> 4, dur |-> 1]>>

\* C15: a handleMessage call whose audio payload fails to decode leaves the
\* status, the session, the calls waiting in decode and, unless the same
\* message carries an interruption, the cursor and the set of sources as they
\* were; the well-formed chunk of the message that follows is taken into
\* decode like any other
C15_BadAudioSkipped ==
  [][/\ (last'.op = "handleMessage" /\ last'.msg.audio = BadAudio) =>
          /\ UNCHANGED <<status, sess, pending>>
          /\ ~last'.msg.interrupted =>
                UNCHANGED <<nextStartTime, audioSources, sched>>
     /\ (last'.op = "handleMessage" /\ last'.afterBad
           /\ last'.msg.audio \in Durations /\ audioContexts # NULL) =>
          pending' = Append(pending, [ctx |-> audioContexts,
                                      dur |-> last'.msg.audio])]_vars

\* a well-formed chunk arrived right after a malformed one, with a buffer
\* playing, and is waiting to be scheduled
C15_Witness ==
  /\ last.op = "handleMessage"
  /\ last.afterBad
  /\ last.msg.audio \in Durations
  /\ status = CONNECTED
  /\ audioSources # {}
  /\ pending # <<>>
  /\ pending[Len(pending)].dur = last.msg.audio

\* C17: each pending fragment is the concatenation, in arrival order, of the
\* transcription texts of its side received since the last turnComplete (the
\* state holds it once the queued updaters are applied), and a turnComplete
\* flushes the fragment with the text of its own message at the end
C17_Accumulates ==
  [][/\ pendingInput' = flat(heard'.user)
     /\ pendingOutput' = flat(heard'.agent)
     /\ last'.op = "render" =>
          /\ currentInput' = flat(heard'.user)
          /\ currentOutput' = flat(heard'.agent)
          /\ \A j \in DOMAIN due :
               hasInk(due[j].text) => count(appended, due[j]) >= 1
     /\ (last'.op = "handleMessage" /\ last'.msg.turnComplete) =>
          /\ due'[Len(due') - 1].text =
               pendingInput \o textOf(last'.msg.inT)
          /\ due'[Len(due')].text =
               pendingOutput \o textOf(last'.msg.outT)]_vars

\* the user fragment " " is due to be flushed together with the "a" of the
\* turnComplete message, and the pending fragment is empty again
C17_Witness ==
  /\ last.op = "handleMessage"
  /\ last.msg.turnComplete
  /\ last.msg.inT = <<"a">>
  /\ due # <<>>
  /\ due[Len(due) - 1] = [role |-> "user", text |-> <<" ", "a">>]
  /\ pendingInput = <<>>

\* C16: the status becomes Connected only from Connecting and only in the
\* onopen of the attempt whose resources the component holds, and a session
\* that opens with the status Connected as a result has a live microphone
\* stream and live contexts for its capture pipeline
C16_ConnectedOnlyOnOpen ==
  [][/\ (status' = CONNECTED /\ status # CONNECTED) =>
          (status = CONNECTING /\ last'.op = "onopen")
     /\ \A a \in Attempts :
          (sess[a] = "connecting" /\ sess'[a] = "open"
             /\ status' = CONNECTED) =>
            /\ stream'[a] = "live"
            /\ ctx'[a] = "live"
            /\ audioContexts' = a
            /\ a \in wired']_vars

\* C18: at most one microphone stream and at most one pair of contexts is
\* live at any time
C18_NeverOrphaned ==
  /\ Cardinality({a \in Attempts : stream[a] = "live"}) <= 1
  /\ Cardinality({a \in Attempts : ctx[a] = "live"}) <= 1

\* C19: while the status is Idle the component holds no session handle, no
\* stream and no contexts, the set of sources is empty and the cursor is 0
C19_IdleHoldsNothing ==
  status = IDLE =>
    /\ sessionRef = NULL
    /\ streamRef = NULL
    /\ audioContexts = NULL
    /\ audioSources = {}
    /\ nextStartTime = 0

\* the frames 1..n in the order of their capture
frames(n) == [i \in 1..n |-> i]

\* C14: the frames a pipeline captured are, each exactly once and in the
\* order of their capture, those handed to its session followed by those
\* waiting for the session handle; a frame waits only while the handle is
\* pending, and the handle of a waiting frame is one that resolves
C14_FramesInOrder ==
  \A a \in Attempts :
    /\ mic[a].sent \o mic[a].queue = frames(mic[a].captured)
    /\ mic[a].queue # <<>> =>
         (pc[a] = "connect" /\ sess[a] \in {"open", "closed"})

\* two frames captured while the handle was pending were handed over, in
\* order, when it resolved
C14_Witness ==
  /\ last.op = "connected"
  /\ mic[1].captured = 2
  /\ mic[1].sent = <<1, 2>>
  /\ mic[1].queue = <<>>

\* C20: a frame is handed to a session only while the status is Connected,
\* the session is open and its attempt is the one whose resources the
\* component holds
C20_SendsOnlyConnected ==
  [][\A a \in Attempts :
       mic'[a].sent # mic[a].sent =>
         /\ status' = CONNECTED
         /\ sess'[a] = "open"
         /\ audioContexts' = a]_vars

====
